---- MODULE Spec2Model ----
(***************************************************************************)
(* Side-by-side diff alignment of vstestxyz/studio.                        *)
(*                                                                         *)
(* DiffDisplay (src/components/diff-display.tsx, the version that pairs a  *)
(* removed part with the added part that follows it) walks the parts the   *)
(* line differ returned and pushes one row per display line to each of two *)
(* panes.  A text is a sequence of one-character strings; a part is a      *)
(* Change of the 'diff' library: value, added?, removed?, count?.  An      *)
(* optional value is a sequence that is empty (absent) or holds one        *)
(* element (present).                                                      *)
(***************************************************************************)
EXTENDS Integers, Sequences, FiniteSets, TLC

\* ------------------------------------------------------------------------
\* Input space
\* ------------------------------------------------------------------------
\* Longest diff that is checked exhaustively.
MaxOps == 2

NL == "\n"

\* The values a part may carry: the empty text, one line with its line
\* break, an empty line followed by a line, and two lines.
Texts == {<<>>, <<"a", NL>>, <<NL, "a">>, <<"a", NL, "b">>}

\* count?: absent, zero, and two different positive numbers.
Counts == {<<>>, <<0>>, <<1>>, <<2>>}

\* A part may carry any value with any combination of the two marks and any
\* count, whether or not the count fits the value.
DiffChange == [value : Texts, added : BOOLEAN, removed : BOOLEAN, count : Counts]

change(value, isAdded, isRemoved, count) ==
  [value |-> value, added |-> isAdded, removed |-> isRemoved, count |-> <<count>>]

\* Longer operation sequences checked besides the exhaustive short ones:
\* what the line differ returns for "a\nb\nc" against "a\nx\nc", for ""
\* against "hello", for a two-line removal replaced by one line, and a
\* sequence in which a mismatched pair is followed by a matching one, and
\* for "\nb" against "\nc".
Scenarios ==
  { << change(<<"a", NL>>, FALSE, FALSE, 1), change(<<"b", NL>>, FALSE, TRUE, 1),
       change(<<"x", NL>>, TRUE, FALSE, 1), change(<<"c">>, FALSE, FALSE, 1) >>,
    << change(<<"h", "e", "l", "l", "o">>, TRUE, FALSE, 1) >>,
    << change(<<"a", NL>>, FALSE, FALSE, 1), change(<<"a", NL, "b", NL>>, FALSE, TRUE, 2),
       change(<<"c", NL>>, TRUE, FALSE, 1), change(<<"d">>, FALSE, FALSE, 1) >>,
    << change(<<"a", NL, "a">>, FALSE, TRUE, 1), change(<<"a">>, TRUE, FALSE, 1),
       change(<<"a", "b", NL>>, FALSE, TRUE, 1), change(<<"a", "c", NL>>, TRUE, FALSE, 1),
       change(<<"d">>, FALSE, FALSE, 1) >>,
    << change(<<NL>>, FALSE, FALSE, 1), change(<<"b">>, FALSE, TRUE, 1),
       change(<<"c">>, TRUE, FALSE, 1) >> }

\* ------------------------------------------------------------------------
\* Line splitting
\* ------------------------------------------------------------------------
endsWithNL(value) == Len(value) > 0 /\ value[Len(value)] = NL

RECURSIVE split(_)
\* String.prototype.split('\n'): the segments between line breaks; a text
\* without a line break (the empty text included) is one segment.
split(value) ==
  IF \A k \in 1..Len(value) : value[k] # NL
  THEN <<value>>
  ELSE LET k == CHOOSE j \in 1..Len(value) :
                  value[j] = NL /\ \A h \in 1..(j - 1) : value[h] # NL
       IN  <<SubSeq(value, 1, k - 1)>> \o split(SubSeq(value, k + 1, Len(value)))

slice(lines) == SubSeq(lines, 1, Len(lines) - 1)

\* Variant: the empty value gives no line.
getDisplayLinesNoneForEmpty(value) ==
  IF value = <<>> THEN <<>>
  ELSE IF endsWithNL(value) THEN slice(split(value))
  ELSE split(value)

\* Variant: the last segment is dropped whatever the value ends with.
getDisplayLinesDropLast(value) ==
  IF value = <<>> THEN << <<>> >> ELSE slice(split(value))

\* Variant: the trailing empty segment is kept.
getDisplayLinesNoSlice(value) == split(value)

getDisplayLines(value) ==
  IF value = <<>> THEN << <<>> >>
  ELSE IF endsWithNL(value) THEN slice(split(value))
  ELSE split(value)

\* ------------------------------------------------------------------------
\* Character differ (library 'diff'): the changes for one pair of lines.
\* Equal lines give one unchanged change; otherwise the common prefix, the
\* removed middle, the added middle and the common suffix, empty ones left
\* out.
\* ------------------------------------------------------------------------
Min(x, y) == IF x < y THEN x ELSE y

commonPrefixLen(a, b) ==
  CHOOSE p \in 0..Min(Len(a), Len(b)) :
    /\ \A k \in 1..p : a[k] = b[k]
    /\ (p < Min(Len(a), Len(b)) => a[p + 1] # b[p + 1])

commonSuffixLen(a, b) ==
  CHOOSE s \in 0..Min(Len(a), Len(b)) :
    /\ \A k \in 0..(s - 1) : a[Len(a) - k] = b[Len(b) - k]
    /\ (s < Min(Len(a), Len(b)) => a[Len(a) - s] # b[Len(b) - s])

charChange(text, isAdded, isRemoved) ==
  IF text = <<>> THEN <<>>
  ELSE <<[value |-> text, added |-> isAdded, removed |-> isRemoved]>>

diffChars(oldStr, newStr) ==
  IF oldStr = newStr
  THEN <<[value |-> oldStr, added |-> FALSE, removed |-> FALSE]>>
  ELSE LET p    == commonPrefixLen(oldStr, newStr)
           oldR == SubSeq(oldStr, p + 1, Len(oldStr))
           newR == SubSeq(newStr, p + 1, Len(newStr))
           s    == commonSuffixLen(oldR, newR)
       IN  charChange(SubSeq(oldStr, 1, p), FALSE, FALSE)
           \o charChange(SubSeq(oldR, 1, Len(oldR) - s), FALSE, TRUE)
           \o charChange(SubSeq(newR, 1, Len(newR) - s), TRUE, FALSE)
           \o charChange(SubSeq(oldR, Len(oldR) - s + 1, Len(oldR)), FALSE, FALSE)

\* ------------------------------------------------------------------------
\* Rows
\* ------------------------------------------------------------------------
RECURSIVE textOf(_)
\* The text a <code> element shows: its spans' values one after the other.
textOf(spans) ==
  IF spans = <<>> THEN <<>> ELSE Head(spans).text \o textOf(Tail(spans))

RECURSIVE originalSpansFlaggedByAdded(_)
\* Variant: the original pane flags a span by the added mark.
originalSpansFlaggedByAdded(charDiffs) ==
  IF charDiffs = <<>> THEN <<>>
  ELSE LET charPart == Head(charDiffs)
       IN  (IF ~charPart.added
            THEN <<[text |-> charPart.value, changed |-> charPart.added]>>
            ELSE <<>>) \o originalSpansFlaggedByAdded(Tail(charDiffs))

RECURSIVE originalSpans(_)
originalSpans(charDiffs) ==
  IF charDiffs = <<>> THEN <<>>
  ELSE LET charPart == Head(charDiffs)
       IN  (IF ~charPart.added
            THEN <<[text |-> charPart.value, changed |-> charPart.removed]>>
            ELSE <<>>) \o originalSpans(Tail(charDiffs))

RECURSIVE modifiedSpansSkipAdded(_)
\* Variant: the modified pane leaves out the added changes.
modifiedSpansSkipAdded(charDiffs) ==
  IF charDiffs = <<>> THEN <<>>
  ELSE LET charPart == Head(charDiffs)
       IN  (IF ~charPart.added
            THEN <<[text |-> charPart.value, changed |-> charPart.added]>>
            ELSE <<>>) \o modifiedSpansSkipAdded(Tail(charDiffs))

RECURSIVE modifiedSpans(_)
modifiedSpans(charDiffs) ==
  IF charDiffs = <<>> THEN <<>>
  ELSE LET charPart == Head(charDiffs)
       IN  (IF ~charPart.removed
            THEN <<[text |-> charPart.value, changed |-> charPart.added]>>
            ELSE <<>>) \o modifiedSpans(Tail(charDiffs))

modifiedRow(lineNo, spans) ==
  [style |-> "Modified", lineNumber |-> <<lineNo>>,
   content |-> textOf(spans), spans |-> <<spans>>]

\* Variant: a plain row wraps its content in one span.
plainRowOneSpan(style, lineNo, lineContent) ==
  [style |-> style, lineNumber |-> <<lineNo>>,
   content |-> lineContent,
   spans |-> << <<[text |-> lineContent, changed |-> FALSE]>> >>]

plainRow(style, lineNo, lineContent) ==
  [style |-> style, lineNumber |-> <<lineNo>>,
   content |-> lineContent, spans |-> <<>>]

\* Variant: the placeholder shows a number in its gutter.
placeholderRowNumbered ==
  [style |-> "Placeholder", lineNumber |-> <<1>>, content |-> <<>>, spans |-> <<>>]

placeholderRow ==
  [style |-> "Placeholder", lineNumber |-> <<>>, content |-> <<>>, spans |-> <<>>]

\* ------------------------------------------------------------------------
\* State
\* ------------------------------------------------------------------------
\* diff .. currentModifiedLine are the prop and the locals of the pairing
\* DiffDisplay; iterations records, per loop iteration, what it did.
\* plainPc .. plainModifiedLine are the locals of the DiffDisplay without
\* pairing, rendering the same diff.
VARIABLES diff, pc, i, originalAlignedLines, modifiedAlignedLines,
          currentOriginalLine, currentModifiedLine, iterations,
          plainPc, partIndex, plainOriginalLines, plainModifiedLines,
          plainOriginalLine, plainModifiedLine

pairingVars == <<pc, i, originalAlignedLines, modifiedAlignedLines,
                 currentOriginalLine, currentModifiedLine, iterations>>

plainVars == <<plainPc, partIndex, plainOriginalLines, plainModifiedLines,
               plainOriginalLine, plainModifiedLine>>

\* One pass of the modified block's loop over a pair of lines: the two
\* lines, what diffChars returned for them, how often it was called, and the
\* row pushed to each pane.
VARIABLES highlightPc, originalLineText, modifiedLineText, charDiffs,
          diffCharsCalls, originalPushed, modifiedPushed

highlightVars == <<highlightPc, originalLineText, modifiedLineText, charDiffs,
                   diffCharsCalls, originalPushed, modifiedPushed>>

\* A second invocation of the pairing DiffDisplay: its diff prop and its own
\* locals (pc, i, originalAlignedLines, modifiedAlignedLines,
\* currentOriginalLine, currentModifiedLine).
VARIABLES secondDiff, second

secondVars == <<secondDiff, second>>

\* CodeCompareForm: the state of the component (originalText, modifiedText,
\* diffResult, isLoading), the callbacks handed to setTimeout that have not
\* run yet, each with the texts it closed over, and the last toast shown.
VARIABLES formOriginalText, formModifiedText, diffResult, isLoading, timers, toast

formVars == <<formOriginalText, formModifiedText, diffResult, isLoading, timers, toast>>

vars == <<diff, pairingVars, plainVars, highlightVars, secondVars, formVars>>

\* ------------------------------------------------------------------------
\* DiffDisplay with pairing
\* ------------------------------------------------------------------------
\* A count is truthy when it is present and not 0.
truthy(count) == count # <<>> /\ count[1] # 0

\* Variant: the count is not required to be truthy and positive.
isModifiedBlockAnyEqualCount(ops, idx) ==
  /\ ops[idx].removed
  /\ idx + 1 <= Len(ops)
  /\ ops[idx + 1].added
  /\ ops[idx].count = ops[idx + 1].count

\* Variant: the two counts are not compared.
isModifiedBlockUnequalCounts(ops, idx) ==
  /\ ops[idx].removed
  /\ idx + 1 <= Len(ops)
  /\ ops[idx + 1].added
  /\ truthy(ops[idx].count)
  /\ ops[idx].count[1] > 0

\* part.removed && nextPart && nextPart.added && part.count === nextPart.count
\*   && part.count && part.count > 0          (idx is the 1-based position)
isModifiedBlock(ops, idx) ==
  /\ ops[idx].removed
  /\ idx + 1 <= Len(ops)
  /\ ops[idx + 1].added
  /\ ops[idx].count = ops[idx + 1].count
  /\ truthy(ops[idx].count)
  /\ ops[idx].count[1] > 0

\* Variant: the safeguard lets a shorter removed text through (<= for ===).
splitLengthsAtMost(ops, idx) ==
  Len(getDisplayLines(ops[idx].value)) <= Len(getDisplayLines(ops[idx + 1].value))

\* originalChangeLines.length === modifiedChangeLines.length
splitLengthsAgree(ops, idx) ==
  Len(getDisplayLines(ops[idx].value)) = Len(getDisplayLines(ops[idx + 1].value))

\* Variant: two parts are rendered as a modified block whenever they split
\* into the same number of lines.
takesModifiedBlockOnLengths(ops, idx) ==
  idx + 1 <= Len(ops) /\ splitLengthsAgree(ops, idx)

\* Variant: no pair of parts is ever rendered as a modified block.
takesModifiedBlockNever(ops, idx) == FALSE

\* The iteration at idx takes the modified-block branch.
takesModifiedBlock(ops, idx) ==
  isModifiedBlock(ops, idx) /\ splitLengthsAgree(ops, idx)

\* Variant: the loop advances by 2 after a standalone part as well.
nextIndexByTwo(index, tookModifiedBlock) == index + 2

\* Variant: the loop advances by 1 after a modified block as well.
nextIndexByOne(index, tookModifiedBlock) == index + 1

\* i += 2 after a modified block, i++ after a standalone part.
nextIndex(index, tookModifiedBlock) ==
  IF tookModifiedBlock THEN index + 2 ELSE index + 1

\* Rows the modified-block branch pushes to the two panes.
\* Variant: the original pane shows the lines of a modified block as removed
\* lines.
modifiedBlockOriginalAsRemoved(origLines, modLines, lineNo) ==
  [j \in 1..Len(origLines) |-> plainRow("Removed", lineNo + j - 1, origLines[j])]

modifiedBlockOriginal(origLines, modLines, lineNo) ==
  [j \in 1..Len(origLines) |->
     modifiedRow(lineNo + j - 1, originalSpans(diffChars(origLines[j], modLines[j])))]

\* Variant: the modified pane filters the character changes as the original
\* pane does.
modifiedBlockModifiedAsOriginal(origLines, modLines, lineNo) ==
  [j \in 1..Len(origLines) |->
     modifiedRow(lineNo + j - 1, originalSpans(diffChars(origLines[j], modLines[j])))]

modifiedBlockModified(origLines, modLines, lineNo) ==
  [j \in 1..Len(origLines) |->
     modifiedRow(lineNo + j - 1, modifiedSpans(diffChars(origLines[j], modLines[j])))]

\* Rows the standalone branch pushes for one part.
\* Variant: the added branch is missing on the original pane, which shows
\* the added line as a common one.
standaloneOriginalNoAddedBranch(part, displayLines, lineNo) ==
  [k \in 1..Len(displayLines) |->
     IF part.removed THEN plainRow("Removed", lineNo + k - 1, displayLines[k])
     ELSE plainRow("Unchanged", lineNo + k - 1, displayLines[k])]

standaloneOriginal(part, displayLines, lineNo) ==
  [k \in 1..Len(displayLines) |->
     IF part.removed THEN plainRow("Removed", lineNo + k - 1, displayLines[k])
     ELSE IF part.added THEN placeholderRow
     ELSE plainRow("Unchanged", lineNo + k - 1, displayLines[k])]

\* Variant: no placeholder is pushed to the modified pane for a removed line.
standaloneModifiedNoPlaceholder(part, displayLines, lineNo) ==
  [k \in 1..(IF part.removed THEN 0 ELSE Len(displayLines)) |->
     IF part.added THEN plainRow("Added", lineNo + k - 1, displayLines[k])
     ELSE plainRow("Unchanged", lineNo + k - 1, displayLines[k])]

standaloneModified(part, displayLines, lineNo) ==
  [k \in 1..Len(displayLines) |->
     IF part.removed THEN placeholderRow
     ELSE IF part.added THEN plainRow("Added", lineNo + k - 1, displayLines[k])
     ELSE plainRow("Unchanged", lineNo + k - 1, displayLines[k])]

\* How far the standalone branch moves each counter (one ++ per pushed
\* numbered row).
\* Variant: a placeholder on the original pane consumes a line number.
originalAdvanceEveryRow(part, displayLines) == Len(displayLines)

\* Variant: only a removed line advances the original counter.
originalAdvanceRemovedOnly(part, displayLines) ==
  IF part.removed THEN Len(displayLines) ELSE 0

originalAdvance(part, displayLines) ==
  IF part.removed THEN Len(displayLines)
  ELSE IF part.added THEN 0
  ELSE Len(displayLines)

\* Variant: only an added line advances the modified counter.
modifiedAdvanceAddedOnly(part, displayLines) ==
  IF part.added THEN Len(displayLines) ELSE 0

\* Variant: a placeholder on the modified pane consumes a line number.
modifiedAdvanceEveryRow(part, displayLines) == Len(displayLines)

modifiedAdvance(part, displayLines) ==
  IF part.removed THEN 0
  ELSE IF part.added THEN Len(displayLines)
  ELSE Len(displayLines)

\* What one loop iteration did: where it stood, the value of the
\* modified-block condition, the branch taken, the parts it rendered, the
\* rows it pushed and the counters before and after.
iteration(index, branch, consumed, rows) ==
  [index |-> index, condition |-> isModifiedBlock(diff, index + 1),
   branch |-> branch, consumed |-> consumed,
   firstRow |-> Len(originalAlignedLines) + 1, rows |-> rows,
   originalBefore |-> currentOriginalLine, modifiedBefore |-> currentModifiedLine,
   originalAfter |-> currentOriginalLine', modifiedAfter |-> currentModifiedLine',
   nextIndex |-> i']

\* if (!diff || diff.length === 0) return <p>No differences ...</p>
NoDifferences ==
  /\ pc = "entry"
  /\ Len(diff) = 0
  /\ pc' = "noDifferences"
  /\ UNCHANGED <<diff, highlightVars, secondVars, formVars, i, originalAlignedLines, modifiedAlignedLines,
                 currentOriginalLine, currentModifiedLine, iterations, plainVars>>

\* Variant: the loop is entered for an empty diff as well.
EnterUnguarded ==
  /\ pc = "entry"
  /\ pc' = "loop"
  /\ i' = 0
  /\ originalAlignedLines' = <<>>
  /\ modifiedAlignedLines' = <<>>
  /\ currentOriginalLine' = 1
  /\ currentModifiedLine' = 1
  /\ UNCHANGED <<diff, highlightVars, secondVars, formVars, iterations, plainVars>>

\* The locals are set up and the loop is entered.
Enter ==
  /\ pc = "entry"
  /\ Len(diff) # 0
  /\ pc' = "loop"
  /\ i' = 0
  /\ originalAlignedLines' = <<>>
  /\ modifiedAlignedLines' = <<>>
  /\ currentOriginalLine' = 1
  /\ currentModifiedLine' = 1
  /\ UNCHANGED <<diff, highlightVars, secondVars, formVars, iterations, plainVars>>

\* One iteration that takes the modified-block branch: i += 2; continue.
ModifiedBlock ==
  /\ pc = "loop"
  /\ i < Len(diff)
  /\ takesModifiedBlock(diff, i + 1)
  /\ LET originalChangeLines == getDisplayLines(diff[i + 1].value)
         modifiedChangeLines == getDisplayLines(diff[i + 2].value)
     IN  /\ originalAlignedLines' = originalAlignedLines \o
              modifiedBlockOriginal(originalChangeLines, modifiedChangeLines,
                                    currentOriginalLine)
         /\ modifiedAlignedLines' = modifiedAlignedLines \o
              modifiedBlockModified(originalChangeLines, modifiedChangeLines,
                                    currentModifiedLine)
         /\ currentOriginalLine' = currentOriginalLine + Len(originalChangeLines)
         /\ currentModifiedLine' = currentModifiedLine + Len(originalChangeLines)
         /\ i' = nextIndex(i, TRUE)
         /\ iterations' = Append(iterations,
              iteration(i, "modifiedBlock", <<i + 1, i + 2>>, Len(originalChangeLines)))
  /\ UNCHANGED <<diff, highlightVars, secondVars, formVars, pc, plainVars>>

\* One iteration that falls through to the standalone branch: i++.
Standalone ==
  /\ pc = "loop"
  /\ i < Len(diff)
  /\ ~takesModifiedBlock(diff, i + 1)
  /\ LET part == diff[i + 1]
         displayLines == getDisplayLines(part.value)
     IN  /\ originalAlignedLines' = originalAlignedLines \o
              standaloneOriginal(part, displayLines, currentOriginalLine)
         /\ modifiedAlignedLines' = modifiedAlignedLines \o
              standaloneModified(part, displayLines, currentModifiedLine)
         /\ currentOriginalLine' =
              currentOriginalLine + originalAdvance(part, displayLines)
         /\ currentModifiedLine' =
              currentModifiedLine + modifiedAdvance(part, displayLines)
         /\ i' = nextIndex(i, FALSE)
         /\ iterations' = Append(iterations,
              iteration(i, "standalone", <<i + 1>>, Len(displayLines)))
  /\ UNCHANGED <<diff, highlightVars, secondVars, formVars, pc, plainVars>>

\* Variant: the loop condition is i <= diff.length, so the loop is not left
\* at i = diff.length, where there is no part to read.
RenderOffByOne ==
  /\ pc = "loop"
  /\ ~(i <= Len(diff))
  /\ pc' = "rendered"
  /\ UNCHANGED <<diff, highlightVars, secondVars, formVars, i, originalAlignedLines, modifiedAlignedLines,
                 currentOriginalLine, currentModifiedLine, iterations, plainVars>>

\* The loop ends and the two panes are returned.
Render ==
  /\ pc = "loop"
  /\ ~(i < Len(diff))
  /\ pc' = "rendered"
  /\ UNCHANGED <<diff, highlightVars, secondVars, formVars, i, originalAlignedLines, modifiedAlignedLines,
                 currentOriginalLine, currentModifiedLine, iterations, plainVars>>

\* ------------------------------------------------------------------------
\* DiffDisplay without pairing
\* ------------------------------------------------------------------------
\* (part.value.endsWith('\n') && lines.length > 1 && part.value !== '\n')
\*    ? lines.slice(0, -1) : lines
plainDisplayLines(value) ==
  LET lines == split(value)
  IN  IF endsWithNL(value) /\ Len(lines) > 1 /\ value # <<NL>>
      THEN slice(lines)
      ELSE lines

plainOriginalRows(part, displayLines, lineNo) ==
  [k \in 1..Len(displayLines) |->
     IF part.removed THEN plainRow("Removed", lineNo + k - 1, displayLines[k])
     ELSE IF part.added THEN placeholderRow
     ELSE plainRow("Unchanged", lineNo + k - 1, displayLines[k])]

plainModifiedRows(part, displayLines, lineNo) ==
  [k \in 1..Len(displayLines) |->
     IF part.removed THEN placeholderRow
     ELSE IF part.added THEN plainRow("Added", lineNo + k - 1, displayLines[k])
     ELSE plainRow("Unchanged", lineNo + k - 1, displayLines[k])]

PlainNoDifferences ==
  /\ plainPc = "entry"
  /\ Len(diff) = 0
  /\ plainPc' = "noDifferences"
  /\ UNCHANGED <<diff, highlightVars, secondVars, formVars, pairingVars, partIndex, plainOriginalLines,
                 plainModifiedLines, plainOriginalLine, plainModifiedLine>>

PlainEnter ==
  /\ plainPc = "entry"
  /\ Len(diff) # 0
  /\ plainPc' = "forEach"
  /\ partIndex' = 0
  /\ plainOriginalLines' = <<>>
  /\ plainModifiedLines' = <<>>
  /\ plainOriginalLine' = 1
  /\ plainModifiedLine' = 1
  /\ UNCHANGED <<diff, highlightVars, secondVars, formVars, pairingVars>>

\* One call of the diff.forEach callback.
PlainPart ==
  /\ plainPc = "forEach"
  /\ partIndex < Len(diff)
  /\ LET part == diff[partIndex + 1]
         displayLines == plainDisplayLines(part.value)
     IN  /\ plainOriginalLines' = plainOriginalLines \o
              plainOriginalRows(part, displayLines, plainOriginalLine)
         /\ plainModifiedLines' = plainModifiedLines \o
              plainModifiedRows(part, displayLines, plainModifiedLine)
         /\ plainOriginalLine' =
              plainOriginalLine + (IF part.removed \/ ~part.added
                                   THEN Len(displayLines) ELSE 0)
         /\ plainModifiedLine' =
              plainModifiedLine + (IF ~part.removed THEN Len(displayLines) ELSE 0)
  /\ partIndex' = partIndex + 1
  /\ UNCHANGED <<diff, highlightVars, secondVars, formVars, pairingVars, plainPc>>

PlainRender ==
  /\ plainPc = "forEach"
  /\ ~(partIndex < Len(diff))
  /\ plainPc' = "rendered"
  /\ UNCHANGED <<diff, highlightVars, secondVars, formVars, pairingVars, partIndex, plainOriginalLines,
                 plainModifiedLines, plainOriginalLine, plainModifiedLine>>

\* ------------------------------------------------------------------------
\* Specifications
\* ------------------------------------------------------------------------
\* Neither version of DiffDisplay has begun.
atEntry ==
  /\ pc = "entry"
  /\ i = 0
  /\ originalAlignedLines = <<>>
  /\ modifiedAlignedLines = <<>>
  /\ currentOriginalLine = 1
  /\ currentModifiedLine = 1
  /\ iterations = <<>>
  /\ plainPc = "entry"
  /\ partIndex = 0
  /\ plainOriginalLines = <<>>
  /\ plainModifiedLines = <<>>
  /\ plainOriginalLine = 1
  /\ plainModifiedLine = 1

\* No pair of lines is being looked at on its own.
highlightIdle ==
  /\ highlightPc = "idle"
  /\ originalLineText = <<>>
  /\ modifiedLineText = <<>>
  /\ charDiffs = <<>>
  /\ diffCharsCalls = 0
  /\ originalPushed = <<>>
  /\ modifiedPushed = <<>>

\* The locals of an invocation that has not begun.
entryLocals ==
  [pc |-> "entry", i |-> 0, originalAlignedLines |-> <<>>, modifiedAlignedLines |-> <<>>,
   currentOriginalLine |-> 1, currentModifiedLine |-> 1]

\* CodeCompareForm as mounted: useState("") twice, useState(null),
\* useState(false).
formIdle ==
  /\ formOriginalText = <<>>
  /\ formModifiedText = <<>>
  /\ diffResult = <<>>
  /\ isLoading = FALSE
  /\ timers = <<>>
  /\ toast = "none"

\* There is no second invocation.
secondIdle ==
  /\ secondDiff = <<>>
  /\ second = entryLocals

Init ==
  /\ \/ \E n \in 0..MaxOps : diff \in [1..n -> DiffChange]
     \/ diff \in Scenarios
  /\ atEntry
  /\ highlightIdle
  /\ secondIdle
  /\ formIdle

\* The pairing DiffDisplay renders the diff.
Next == NoDifferences \/ Enter \/ ModifiedBlock \/ Standalone \/ Render

Spec == Init /\ [][Next]_vars

\* DiffDisplay runs to completion once invoked: a step that can be taken is
\* taken.  The diffs are those of up to MaxOps parts with one-line and
\* two-line values, any marks, and a count that is absent, zero or one.
FairChange ==
  [value : {<<"a", NL>>, <<"a", NL, "b">>}, added : BOOLEAN, removed : BOOLEAN,
   count : {<<>>, <<0>>, <<1>>}]

InitFair ==
  /\ \E n \in 0..MaxOps : diff \in [1..n -> FairChange]
  /\ atEntry
  /\ highlightIdle
  /\ secondIdle
  /\ formIdle

SpecFair == InitFair /\ [][Next]_vars /\ WF_vars(Next)

pairingReturned == pc \in {"noDifferences", "rendered"}

\* The same diff is rendered by the pairing DiffDisplay and then by the
\* DiffDisplay without pairing.
PlainNext ==
  /\ pairingReturned
  /\ (PlainNoDifferences \/ PlainEnter \/ PlainPart \/ PlainRender)

NextBoth == Next \/ PlainNext

SpecBoth == Init /\ [][NextBoth]_vars

\* The pairing DiffDisplay renders one unmarked part whose value is any text
\* of up to MaxLen characters, so that getDisplayLines is applied to every
\* such text and its result shown as rows.
MaxLen == 4

SplitChars == {"a", "b", NL}

SplitTexts == UNION {[1..n -> SplitChars] : n \in 0..MaxLen}

InitSplit ==
  /\ diff \in {<<[value |-> text, added |-> FALSE, removed |-> FALSE, count |-> <<1>>]>> :
                 text \in SplitTexts}
  /\ atEntry
  /\ highlightIdle
  /\ secondIdle
  /\ formIdle

NextSplit == Enter \/ Standalone \/ Render

SpecSplit == InitSplit /\ [][NextSplit]_vars

\* One pass of the loop over the lines of a modified block, for any pair of
\* lines and any sequence of up to MaxChanges changes returned by diffChars.
MaxChanges == 3

HighlightLines == {<<>>, <<"b">>, <<"a", "b">>}

CharChange == [value : {<<"a">>, <<"b">>, <<"a", "b">>}, added : BOOLEAN, removed : BOOLEAN]

CharDiffSeqs == UNION {[1..n -> CharChange] : n \in 0..MaxChanges}

InitHighlight ==
  /\ diff = <<>>
  /\ atEntry
  /\ secondIdle
  /\ formIdle
  /\ highlightPc = "lines"
  /\ originalLineText \in HighlightLines
  /\ modifiedLineText \in HighlightLines
  /\ charDiffs = <<>>
  /\ diffCharsCalls = 0
  /\ originalPushed = <<>>
  /\ modifiedPushed = <<>>

\* const charDiffs = diffChars(originalLineText, modifiedLineText)
CallDiffChars ==
  /\ highlightPc = "lines"
  /\ charDiffs' \in CharDiffSeqs
  /\ diffCharsCalls' = diffCharsCalls + 1
  /\ highlightPc' = "diffed"
  /\ UNCHANGED <<diff, pairingVars, plainVars, secondVars, formVars, originalLineText, modifiedLineText,
                 originalPushed, modifiedPushed>>

\* originalAlignedLines.push(...); modifiedAlignedLines.push(...)
PushModifiedRows ==
  /\ highlightPc = "diffed"
  /\ originalPushed' = <<modifiedRow(1, originalSpans(charDiffs))>>
  /\ modifiedPushed' = <<modifiedRow(1, modifiedSpans(charDiffs))>>
  /\ highlightPc' = "pushed"
  /\ UNCHANGED <<diff, pairingVars, plainVars, secondVars, formVars, originalLineText, modifiedLineText,
                 charDiffs, diffCharsCalls>>

NextHighlight == CallDiffChars \/ PushModifiedRows

SpecHighlight == InitHighlight /\ [][NextHighlight]_vars

\* The DiffDisplay without pairing renders one unmarked part whose value is
\* any text of up to MaxLen characters.
NextSplitPlain == PlainEnter \/ PlainPart \/ PlainRender

SpecSplitPlain == InitSplit /\ [][NextSplitPlain]_vars

\* Two invocations of the pairing DiffDisplay, each with its own diff of up
\* to MaxOps parts, whose steps interleave in any order.
TwoChange ==
  { change(<<"a", NL>>, FALSE, FALSE, 1), change(<<"a", NL, "b">>, FALSE, TRUE, 1),
    change(<<"a", NL>>, FALSE, TRUE, 1), change(<<"b", NL>>, TRUE, FALSE, 1) }

TwoDiffs == UNION {[1..n -> TwoChange] : n \in 0..MaxOps}

InitTwo ==
  /\ diff \in TwoDiffs
  /\ atEntry
  /\ highlightIdle
  /\ secondDiff \in TwoDiffs
  /\ second = entryLocals
  /\ formIdle

SecondNoDifferences ==
  /\ second.pc = "entry"
  /\ Len(secondDiff) = 0
  /\ second' = [second EXCEPT !.pc = "noDifferences"]
  /\ UNCHANGED <<diff, pairingVars, plainVars, highlightVars, secondDiff, formVars>>

\* Variant: the counters are not locals of the invocation; the second
\* invocation goes on from where the counters stand.
SecondEnterSharedCounters ==
  /\ second.pc = "entry"
  /\ Len(secondDiff) # 0
  /\ second' = [pc |-> "loop", i |-> 0,
                originalAlignedLines |-> <<>>, modifiedAlignedLines |-> <<>>,
                currentOriginalLine |-> currentOriginalLine,
                currentModifiedLine |-> currentModifiedLine]
  /\ UNCHANGED <<diff, pairingVars, plainVars, highlightVars, secondDiff, formVars>>

\* The second invocation creates its own arrays and counters.
SecondEnter ==
  /\ second.pc = "entry"
  /\ Len(secondDiff) # 0
  /\ second' = [pc |-> "loop", i |-> 0,
                originalAlignedLines |-> <<>>, modifiedAlignedLines |-> <<>>,
                currentOriginalLine |-> 1, currentModifiedLine |-> 1]
  /\ UNCHANGED <<diff, pairingVars, plainVars, highlightVars, secondDiff, formVars>>

SecondModifiedBlock ==
  /\ second.pc = "loop"
  /\ second.i < Len(secondDiff)
  /\ takesModifiedBlock(secondDiff, second.i + 1)
  /\ LET originalChangeLines == getDisplayLines(secondDiff[second.i + 1].value)
         modifiedChangeLines == getDisplayLines(secondDiff[second.i + 2].value)
     IN  second' =
           [pc |-> "loop",
            i |-> nextIndex(second.i, TRUE),
            originalAlignedLines |-> second.originalAlignedLines \o
              modifiedBlockOriginal(originalChangeLines, modifiedChangeLines,
                                    second.currentOriginalLine),
            modifiedAlignedLines |-> second.modifiedAlignedLines \o
              modifiedBlockModified(originalChangeLines, modifiedChangeLines,
                                    second.currentModifiedLine),
            currentOriginalLine |-> second.currentOriginalLine + Len(originalChangeLines),
            currentModifiedLine |-> second.currentModifiedLine + Len(originalChangeLines)]
  /\ UNCHANGED <<diff, pairingVars, plainVars, highlightVars, secondDiff, formVars>>

SecondStandalone ==
  /\ second.pc = "loop"
  /\ second.i < Len(secondDiff)
  /\ ~takesModifiedBlock(secondDiff, second.i + 1)
  /\ LET part == secondDiff[second.i + 1]
         displayLines == getDisplayLines(part.value)
     IN  second' =
           [pc |-> "loop",
            i |-> nextIndex(second.i, FALSE),
            originalAlignedLines |-> second.originalAlignedLines \o
              standaloneOriginal(part, displayLines, second.currentOriginalLine),
            modifiedAlignedLines |-> second.modifiedAlignedLines \o
              standaloneModified(part, displayLines, second.currentModifiedLine),
            currentOriginalLine |->
              second.currentOriginalLine + originalAdvance(part, displayLines),
            currentModifiedLine |->
              second.currentModifiedLine + modifiedAdvance(part, displayLines)]
  /\ UNCHANGED <<diff, pairingVars, plainVars, highlightVars, secondDiff, formVars>>

SecondRender ==
  /\ second.pc = "loop"
  /\ ~(second.i < Len(secondDiff))
  /\ second' = [second EXCEPT !.pc = "rendered"]
  /\ UNCHANGED <<diff, pairingVars, plainVars, highlightVars, secondDiff, formVars>>

SecondNext ==
  SecondNoDifferences \/ SecondEnter \/ SecondModifiedBlock \/ SecondStandalone \/ SecondRender

NextTwo == Next \/ SecondNext

SpecTwo == InitTwo /\ [][NextTwo]_vars

RECURSIVE alignedFrom(_, _, _, _)
\* The rows the loop pushes from index idx on, for counters standing at
\* lineO and lineM.
alignedFrom(ops, idx, lineO, lineM) ==
  IF ~(idx < Len(ops)) THEN [original |-> <<>>, modified |-> <<>>]
  ELSE IF takesModifiedBlock(ops, idx + 1)
  THEN LET originalChangeLines == getDisplayLines(ops[idx + 1].value)
           modifiedChangeLines == getDisplayLines(ops[idx + 2].value)
           rest == alignedFrom(ops, nextIndex(idx, TRUE),
                               lineO + Len(originalChangeLines),
                               lineM + Len(originalChangeLines))
       IN  [original |-> modifiedBlockOriginal(originalChangeLines, modifiedChangeLines, lineO)
                           \o rest.original,
            modified |-> modifiedBlockModified(originalChangeLines, modifiedChangeLines, lineM)
                           \o rest.modified]
  ELSE LET part == ops[idx + 1]
           displayLines == getDisplayLines(part.value)
           rest == alignedFrom(ops, nextIndex(idx, FALSE),
                               lineO + originalAdvance(part, displayLines),
                               lineM + modifiedAdvance(part, displayLines))
       IN  [original |-> standaloneOriginal(part, displayLines, lineO) \o rest.original,
            modified |-> standaloneModified(part, displayLines, lineM) \o rest.modified]

\* What one invocation of the pairing DiffDisplay returns for a diff when
\* nothing else runs.
DiffDisplayAlone(ops) ==
  IF Len(ops) = 0
  THEN [pc |-> "noDifferences", original |-> <<>>, modified |-> <<>>]
  ELSE LET rows == alignedFrom(ops, 0, 1, 1)
       IN  [pc |-> "rendered", original |-> rows.original, modified |-> rows.modified]

\* ------------------------------------------------------------------------
\* CodeCompareForm
\* ------------------------------------------------------------------------
\* What the user may put into a text area: nothing, a blank, a line with its
\* line break, a line without.
FormTexts == {<<>>, <<" ">>, <<"a", NL>>, <<"b">>}

isWhitespace(c) == c \in {" ", NL}

\* String.prototype.trim
trim(text) ==
  IF \A k \in 1..Len(text) : isWhitespace(text[k]) THEN <<>>
  ELSE LET first == CHOOSE k \in 1..Len(text) :
                      ~isWhitespace(text[k]) /\ \A h \in 1..(k - 1) : isWhitespace(text[h])
           last  == CHOOSE k \in 1..Len(text) :
                      ~isWhitespace(text[k]) /\ \A h \in (k + 1)..Len(text) : isWhitespace(text[h])
       IN  SubSeq(text, first, last)

\* !originalText.trim() && !modifiedText.trim()
inputMissing == trim(formOriginalText) = <<>> /\ trim(formModifiedText) = <<>>

\* Line differ (library 'diff'): parts that cover both texts; equal texts
\* give one unmarked part, different texts a removed part and an added part,
\* empty ones left out.
diffLines(oldStr, newStr) ==
  IF oldStr = newStr
  THEN <<change(oldStr, FALSE, FALSE, Len(getDisplayLines(oldStr)))>>
  ELSE (IF oldStr = <<>> THEN <<>>
        ELSE <<change(oldStr, FALSE, TRUE, Len(getDisplayLines(oldStr)))>>)
       \o (IF newStr = <<>> THEN <<>>
           ELSE <<change(newStr, TRUE, FALSE, Len(getDisplayLines(newStr)))>>)

\* <Button onClick={handleCompare} disabled={isLoading}>
compareDisabled == isLoading

\* {diffResult && !isLoading && (<CardFooter> ... </CardFooter>)}
resultPanelShown == diffResult # <<>> /\ ~isLoading

InitForm ==
  /\ diff = <<>>
  /\ atEntry
  /\ highlightIdle
  /\ secondIdle
  /\ formIdle

\* onChange of a text area, or a file read into it.
SetOriginalText ==
  /\ \E text \in FormTexts : formOriginalText' = text
  /\ UNCHANGED <<diff, pairingVars, plainVars, highlightVars, secondVars,
                 formModifiedText, diffResult, isLoading, timers, toast>>

SetModifiedText ==
  /\ \E text \in FormTexts : formModifiedText' = text
  /\ UNCHANGED <<diff, pairingVars, plainVars, highlightVars, secondVars,
                 formOriginalText, diffResult, isLoading, timers, toast>>

\* handleCompare with both inputs blank: the toast, and return.
HandleCompareInputMissing ==
  /\ ~compareDisabled
  /\ inputMissing
  /\ toast' = "Input Missing"
  /\ UNCHANGED <<diff, pairingVars, plainVars, highlightVars, secondVars,
                 formOriginalText, formModifiedText, diffResult, isLoading, timers>>

\* handleCompare otherwise: setIsLoading(true); setTimeout(callback, 500).
HandleCompare ==
  /\ ~compareDisabled
  /\ ~inputMissing
  /\ isLoading' = TRUE
  /\ timers' = Append(timers, [originalText |-> formOriginalText,
                               modifiedText |-> formModifiedText])
  /\ UNCHANGED <<diff, pairingVars, plainVars, highlightVars, secondVars,
                 formOriginalText, formModifiedText, diffResult, toast>>

\* Variant: the callback does not reset isLoading.
TimerFiresKeepsLoading ==
  /\ timers # <<>>
  /\ diffResult' = <<diffLines(Head(timers).originalText, Head(timers).modifiedText)>>
  /\ toast' = "Comparison Complete"
  /\ timers' = Tail(timers)
  /\ UNCHANGED <<diff, pairingVars, plainVars, highlightVars, secondVars,
                 formOriginalText, formModifiedText, isLoading>>

\* The delayed callback: setDiffResult(differences); setIsLoading(false).
TimerFires ==
  /\ timers # <<>>
  /\ diffResult' = <<diffLines(Head(timers).originalText, Head(timers).modifiedText)>>
  /\ isLoading' = FALSE
  /\ toast' = "Comparison Complete"
  /\ timers' = Tail(timers)
  /\ UNCHANGED <<diff, pairingVars, plainVars, highlightVars, secondVars,
                 formOriginalText, formModifiedText>>

NextForm ==
  SetOriginalText \/ SetModifiedText \/ HandleCompareInputMissing \/ HandleCompare \/ TimerFires

\* A timer that is due fires.
SpecForm == InitForm /\ [][NextForm]_vars /\ WF_vars(TimerFires)

\* ------------------------------------------------------------------------
\* Properties
\* ------------------------------------------------------------------------
rowsOf(it) == it.firstRow..(it.firstRow + it.rows - 1)

numbered(rows) == SelectSeq(rows, LAMBDA row : row.style # "Placeholder")

hasStyle(rows, style) == \E k \in 1..Len(rows) : rows[k].style = style

\* C1: after every operation (or paired block) processed, the original pane
\* and the modified pane hold the same number of rows; this holds of the
\* pairing DiffDisplay and of the DiffDisplay without pairing.
AlignedRowCounts ==
  /\ Len(originalAlignedLines) = Len(modifiedAlignedLines)
  /\ Len(plainOriginalLines) = Len(plainModifiedLines)

\* Both versions are in the middle of a diff, each having pushed a
\* Placeholder opposite a numbered row.
AlignedRowCountsWitness ==
  /\ pc = "rendered"
  /\ hasStyle(originalAlignedLines, "Placeholder")
  /\ hasStyle(modifiedAlignedLines, "Placeholder")
  /\ hasStyle(originalAlignedLines, "Modified")
  /\ plainPc = "forEach"
  /\ partIndex > 0 /\ partIndex < Len(diff)
  /\ hasStyle(plainModifiedLines, "Placeholder")

\* C2: in each pane the line numbers of the rows that are not Placeholder,
\* read in row order, are 1, 2, 3, ...
ConsecutiveLineNumbers ==
  /\ \A k \in 1..Len(numbered(originalAlignedLines)) :
       numbered(originalAlignedLines)[k].lineNumber = <<k>>
  /\ \A k \in 1..Len(numbered(modifiedAlignedLines)) :
       numbered(modifiedAlignedLines)[k].lineNumber = <<k>>

\* A rendered diff in which a mismatched pair fell back to standalone rows,
\* a later pair was rendered as a modified block and a common part followed.
ConsecutiveLineNumbersWitness ==
  /\ pc = "rendered"
  /\ \E a, b, c \in 1..Len(iterations) :
       /\ a < b /\ b < c
       /\ iterations[a].condition /\ iterations[a].branch = "standalone"
       /\ iterations[b].branch = "modifiedBlock"
       /\ iterations[c].branch = "standalone"
  /\ Len(numbered(originalAlignedLines)) # Len(numbered(modifiedAlignedLines))

\* C3: a row has a line number if and only if it is not a Placeholder.
LineNumberIffNotPlaceholder ==
  \A rows \in {originalAlignedLines, modifiedAlignedLines} :
    \A k \in 1..Len(rows) :
      (rows[k].lineNumber # <<>>) <=> (rows[k].style # "Placeholder")

LineNumberIffNotPlaceholderWitness ==
  /\ pc = "rendered"
  /\ \A style \in {"Placeholder", "Removed", "Modified", "Unchanged"} :
       hasStyle(originalAlignedLines, style)
  /\ \A style \in {"Placeholder", "Added", "Modified", "Unchanged"} :
       hasStyle(modifiedAlignedLines, style)

\* C4: a row has character spans if and only if its style is Modified.
SpansIffModified ==
  \A rows \in {originalAlignedLines, modifiedAlignedLines} :
    \A k \in 1..Len(rows) :
      (rows[k].spans # <<>>) <=> (rows[k].style = "Modified")

SpansIffModifiedWitness ==
  /\ pc = "rendered"
  /\ \E k \in 1..Len(originalAlignedLines) :
       /\ originalAlignedLines[k].style = "Modified"
       /\ Len(originalAlignedLines[k].spans[1]) > 1
       /\ modifiedAlignedLines[k].style = "Modified"
  /\ hasStyle(originalAlignedLines, "Removed")
  /\ hasStyle(modifiedAlignedLines, "Added")
  /\ hasStyle(modifiedAlignedLines, "Unchanged")

\* C5: the modified-block condition holds at a position if and only if the
\* part there is marked removed, a next part exists and is marked added, both
\* counts are present and equal, and the count is greater than zero.
ModifiedPairCondition ==
  /\ \A idx \in 1..Len(diff) :
       isModifiedBlock(diff, idx) <=>
         /\ diff[idx].removed
         /\ idx < Len(diff)
         /\ diff[idx + 1].added
         /\ diff[idx].count # <<>>
         /\ diff[idx + 1].count # <<>>
         /\ diff[idx].count[1] = diff[idx + 1].count[1]
         /\ diff[idx].count[1] >= 1
  /\ \A k \in 1..Len(iterations) :
       iterations[k].condition = isModifiedBlock(diff, iterations[k].index + 1)

\* A two-part diff whose first part met the condition and was rendered as a
\* modified block; the condition is evaluated at the last position too.
ModifiedPairConditionWitness ==
  /\ pc = "rendered"
  /\ Len(diff) = 2
  /\ isModifiedBlock(diff, 1)
  /\ ~isModifiedBlock(diff, 2)
  /\ iterations[1].branch = "modifiedBlock"

\* C6 as stated: an iteration consumes two parts and advances by 2 whenever
\* the modified-block condition holds, and one part otherwise.
AdvanceByConditionAlone ==
  \A k \in 1..Len(iterations) :
    LET it == iterations[k]
    IN  /\ it.nextIndex = it.index + (IF it.condition THEN 2 ELSE 1)
        /\ Len(it.consumed) = (IF it.condition THEN 2 ELSE 1)

\* C6 amended: an iteration consumes ops[i] and ops[i+1] and advances by 2
\* when the modified-block condition holds and the two texts split into the
\* same number of lines; otherwise it consumes ops[i] alone and advances by
\* 1; every operation is consumed exactly once, in order.
EachOperationConsumedOnce ==
  /\ \A k \in 1..Len(iterations) :
       LET it == iterations[k]
           pair == /\ it.condition
                   /\ Len(getDisplayLines(diff[it.index + 1].value)) =
                        Len(getDisplayLines(diff[it.index + 2].value))
       IN  /\ it.index = (IF k = 1 THEN 0 ELSE iterations[k - 1].nextIndex)
           /\ it.consumed = (IF pair THEN <<it.index + 1, it.index + 2>>
                                     ELSE <<it.index + 1>>)
           /\ it.nextIndex = it.index + Len(it.consumed)
           /\ it.branch = (IF pair THEN "modifiedBlock" ELSE "standalone")
           /\ it.rows = Len(getDisplayLines(diff[it.index + 1].value))
  /\ i = (IF iterations = <<>> THEN 0 ELSE iterations[Len(iterations)].nextIndex)
  /\ (pc = "rendered" => i = Len(diff))

\* A rendered diff with a mismatched pair (advance by 1), a matching pair
\* (advance by 2) and further single parts.
EachOperationConsumedOnceWitness ==
  /\ pc = "rendered"
  /\ \E a, b, c \in 1..Len(iterations) :
       /\ iterations[a].condition /\ iterations[a].nextIndex = iterations[a].index + 1
       /\ iterations[b].condition /\ iterations[b].nextIndex = iterations[b].index + 2
       /\ ~iterations[c].condition /\ b < c

\* C7: when the modified-block condition holds at i (ops[i] Removed, ops[i+1]
\* Added and not also marked removed; for parts marked both see C18) but the
\* two texts split into different numbers of lines, ops[i] is
\* rendered as Removed rows facing Placeholders, then ops[i+1] as Added rows
\* facing Placeholders, and no row of the two is Modified.
FallbackRendersStandalone ==
  \A k \in 1..Len(iterations) :
    LET it == iterations[k]
        idx == it.index + 1
    IN  ( /\ it.condition
          /\ Len(getDisplayLines(diff[idx].value)) #
               Len(getDisplayLines(diff[idx + 1].value))
          /\ ~diff[idx + 1].removed ) =>
          LET removedLines == getDisplayLines(diff[idx].value)
              addedLines == getDisplayLines(diff[idx + 1].value)
          IN  /\ it.branch = "standalone"
              /\ it.rows = Len(removedLines)
              /\ \A j \in 1..Len(removedLines) :
                   LET row == it.firstRow + j - 1
                   IN  /\ originalAlignedLines[row].style = "Removed"
                       /\ originalAlignedLines[row].content = removedLines[j]
                       /\ modifiedAlignedLines[row].style = "Placeholder"
              /\ (pc = "rendered" => k < Len(iterations))
              /\ k < Len(iterations) =>
                   LET nx == iterations[k + 1]
                   IN  /\ nx.index = it.index + 1
                       /\ nx.branch = "standalone"
                       /\ nx.firstRow = it.firstRow + Len(removedLines)
                       /\ nx.rows = Len(addedLines)
                       /\ \A j \in 1..Len(addedLines) :
                            LET row == nx.firstRow + j - 1
                            IN  /\ originalAlignedLines[row].style = "Placeholder"
                                /\ modifiedAlignedLines[row].style = "Added"
                                /\ modifiedAlignedLines[row].content = addedLines[j]

\* A rendered diff in which a Removed part and the Added part after it have
\* equal positive counts but texts of different numbers of lines.
FallbackRendersStandaloneWitness ==
  /\ pc = "rendered"
  /\ \E k \in 1..Len(iterations) :
       /\ iterations[k].condition
       /\ Len(getDisplayLines(diff[iterations[k].index + 1].value)) #
            Len(getDisplayLines(diff[iterations[k].index + 2].value))
       /\ ~diff[iterations[k].index + 2].removed
       /\ ~diff[iterations[k].index + 1].added

\* C8: a modified pair whose texts both split into n lines pushes n rows to
\* each pane, all Modified; row j shows line j of the removed text on the
\* original pane and line j of the added text on the modified pane, and each
\* line counter advances by n.
ModifiedBlockRows ==
  \A k \in 1..Len(iterations) :
    LET it == iterations[k]
        idx == it.index + 1
    IN  ( /\ it.condition
          /\ Len(getDisplayLines(diff[idx].value)) =
               Len(getDisplayLines(diff[idx + 1].value)) ) =>
          LET removedLines == getDisplayLines(diff[idx].value)
              addedLines == getDisplayLines(diff[idx + 1].value)
              n == Len(removedLines)
          IN  /\ it.branch = "modifiedBlock"
              /\ it.rows = n
              /\ Len(originalAlignedLines) >= it.firstRow + n - 1
              /\ Len(modifiedAlignedLines) >= it.firstRow + n - 1
              /\ (k < Len(iterations) => iterations[k + 1].firstRow = it.firstRow + n)
              /\ \A j \in 1..n :
                   LET row == it.firstRow + j - 1
                   IN  /\ originalAlignedLines[row].style = "Modified"
                       /\ originalAlignedLines[row].content = removedLines[j]
                       /\ originalAlignedLines[row].lineNumber = <<it.originalBefore + j - 1>>
                       /\ modifiedAlignedLines[row].style = "Modified"
                       /\ modifiedAlignedLines[row].content = addedLines[j]
                       /\ modifiedAlignedLines[row].lineNumber = <<it.modifiedBefore + j - 1>>
              /\ it.originalAfter = it.originalBefore + n
              /\ it.modifiedAfter = it.modifiedBefore + n

\* A rendered modified block of two or more lines in which some removed line
\* differs from the added line facing it.
ModifiedBlockRowsWitness ==
  /\ pc = "rendered"
  /\ \E k \in 1..Len(iterations) :
       /\ iterations[k].branch = "modifiedBlock"
       /\ iterations[k].rows >= 2
       /\ \E j \in rowsOf(iterations[k]) :
            originalAlignedLines[j].content # modifiedAlignedLines[j].content

\* C9: a standalone Removed operation of k lines pushes k numbered Removed
\* rows with the line contents to the original pane and k Placeholder rows
\* (no number, empty content) to the modified pane; a standalone Added
\* operation is the mirror image; the single Added operation "hello" gives
\* [Placeholder] and [{1, "hello", Added}].
StandaloneRows ==
  /\ \A k \in 1..Len(iterations) :
       LET it == iterations[k]
           part == diff[it.index + 1]
           lines == getDisplayLines(part.value)
           own == IF part.removed THEN originalAlignedLines ELSE modifiedAlignedLines
           other == IF part.removed THEN modifiedAlignedLines ELSE originalAlignedLines
           before == IF part.removed THEN it.originalBefore ELSE it.modifiedBefore
       IN  (it.branch = "standalone" /\ part.removed # part.added) =>
             /\ it.rows = Len(lines)
             /\ Len(own) >= it.firstRow + Len(lines) - 1
             /\ Len(other) >= it.firstRow + Len(lines) - 1
             /\ (k < Len(iterations) => iterations[k + 1].firstRow = it.firstRow + Len(lines))
             /\ \A j \in 1..Len(lines) :
                  LET row == it.firstRow + j - 1
                  IN  /\ own[row].style = (IF part.removed THEN "Removed" ELSE "Added")
                      /\ own[row].lineNumber = <<before + j - 1>>
                      /\ own[row].content = lines[j]
                      /\ other[row].style = "Placeholder"
                      /\ other[row].lineNumber = <<>>
                      /\ other[row].content = <<>>
  /\ (pc = "rendered" /\ diff = <<change(<<"h", "e", "l", "l", "o">>, TRUE, FALSE, 1)>>) =>
       /\ Len(originalAlignedLines) = 1
       /\ originalAlignedLines[1].style = "Placeholder"
       /\ modifiedAlignedLines =
            <<[lineNumber |-> <<1>>, content |-> <<"h", "e", "l", "l", "o">>,
               style |-> "Added", spans |-> <<>>]>>

\* A rendered diff with a standalone Removed part of two lines and a
\* standalone Added part.
StandaloneRowsWitness ==
  /\ pc = "rendered"
  /\ \E a, b \in 1..Len(iterations) :
       /\ iterations[a].branch = "standalone"
       /\ diff[iterations[a].index + 1].removed /\ ~diff[iterations[a].index + 1].added
       /\ iterations[a].rows = 2
       /\ iterations[b].branch = "standalone"
       /\ diff[iterations[b].index + 1].added /\ ~diff[iterations[b].index + 1].removed

\* C10: a Removed operation of count 2 followed by an Added operation of
\* count 1 is not paired: the Removed operation's lines are Removed rows
\* facing Placeholders, then the Added operation's lines are Added rows
\* facing Placeholders; with texts of 2 lines and 1 line that is 3 rows per
\* pane.
NoSpuriousPairing ==
  \A k \in 1..Len(iterations) :
    LET it == iterations[k]
        idx == it.index + 1
    IN  ( /\ idx < Len(diff)
          /\ diff[idx].removed /\ ~diff[idx].added /\ diff[idx].count = <<2>>
          /\ diff[idx + 1].added /\ ~diff[idx + 1].removed /\ diff[idx + 1].count = <<1>> ) =>
          /\ it.branch = "standalone"
          /\ \A row \in rowsOf(it) :
               /\ originalAlignedLines[row].style = "Removed"
               /\ modifiedAlignedLines[row].style = "Placeholder"
          /\ (Len(getDisplayLines(diff[idx].value)) = 2 => it.rows = 2)
          /\ (pc = "rendered" => k < Len(iterations))
          /\ k < Len(iterations) =>
               LET nx == iterations[k + 1]
               IN  /\ nx.index = it.index + 1
                   /\ nx.branch = "standalone"
                   /\ nx.firstRow = it.firstRow + it.rows
                   /\ \A row \in rowsOf(nx) :
                        /\ originalAlignedLines[row].style = "Placeholder"
                        /\ modifiedAlignedLines[row].style = "Added"
                   /\ (Len(getDisplayLines(diff[idx + 1].value)) = 1 => nx.rows = 1)

\* A rendered two-part diff: Removed, count 2, two lines; Added, count 1, one
\* line; three rows in each pane.
NoSpuriousPairingWitness ==
  /\ pc = "rendered"
  /\ Len(diff) = 2
  /\ diff[1].removed /\ ~diff[1].added /\ diff[1].count = <<2>>
  /\ diff[2].added /\ ~diff[2].removed /\ diff[2].count = <<1>>
  /\ Len(getDisplayLines(diff[1].value)) = 2
  /\ Len(getDisplayLines(diff[2].value)) = 1
  /\ Len(originalAlignedLines) = 3
  /\ Len(modifiedAlignedLines) = 3

\* C11: a Common operation of k lines pushes k Unchanged rows to each pane
\* with the same content at the same index; the original-pane row is numbered
\* from the original counter and the modified-pane row from the modified
\* counter, and both counters advance by k.
CommonRows ==
  \A k \in 1..Len(iterations) :
    LET it == iterations[k]
        part == diff[it.index + 1]
        lines == getDisplayLines(part.value)
    IN  (~part.added /\ ~part.removed) =>
          /\ it.branch = "standalone"
          /\ it.rows = Len(lines)
          /\ Len(originalAlignedLines) >= it.firstRow + Len(lines) - 1
          /\ Len(modifiedAlignedLines) >= it.firstRow + Len(lines) - 1
          /\ (k < Len(iterations) => iterations[k + 1].firstRow = it.firstRow + Len(lines))
          /\ \A j \in 1..Len(lines) :
               LET row == it.firstRow + j - 1
               IN  /\ originalAlignedLines[row].style = "Unchanged"
                   /\ modifiedAlignedLines[row].style = "Unchanged"
                   /\ originalAlignedLines[row].content = lines[j]
                   /\ modifiedAlignedLines[row].content = lines[j]
                   /\ originalAlignedLines[row].lineNumber = <<it.originalBefore + j - 1>>
                   /\ modifiedAlignedLines[row].lineNumber = <<it.modifiedBefore + j - 1>>
          /\ it.originalAfter = it.originalBefore + Len(lines)
          /\ it.modifiedAfter = it.modifiedBefore + Len(lines)
          /\ (k < Len(iterations) =>
                /\ iterations[k + 1].originalBefore = it.originalAfter
                /\ iterations[k + 1].modifiedBefore = it.modifiedAfter)

\* A rendered diff in which a Common operation of two lines follows a
\* Removed one, so that its rows carry different numbers on the two panes.
CommonRowsWitness ==
  /\ pc = "rendered"
  /\ \E k \in 1..Len(iterations) :
       /\ ~diff[iterations[k].index + 1].added
       /\ ~diff[iterations[k].index + 1].removed
       /\ iterations[k].rows = 2
       /\ iterations[k].originalBefore # iterations[k].modifiedBefore
       /\ \E row \in rowsOf(iterations[k]) :
            originalAlignedLines[row].lineNumber # modifiedAlignedLines[row].lineNumber

RECURSIVE joinLines(_)
\* The lines written one after the other with a line break between them.
joinLines(lines) ==
  IF lines = <<>> THEN <<>>
  ELSE IF Len(lines) = 1 THEN lines[1]
  ELSE lines[1] \o <<NL>> \o joinLines(Tail(lines))

\* C12: getDisplayLines gives one empty line for the empty text and for the
\* text that is a single line break; for a text ending in a line break it
\* gives the segments between line breaks without the trailing empty one,
\* and for any other text all the segments.  On "", "\n", "a", "a\n", "a\nb"
\* and "a\nb\n" it gives [""], [""], ["a"], ["a"], ["a","b"], ["a","b"], and
\* an unmarked part is rendered as one Unchanged row per line it gives.
LineSplitterRule ==
  LET text == diff[1].value
      lines == getDisplayLines(text)
  IN  /\ \A k \in 1..Len(lines) : \A c \in 1..Len(lines[k]) : lines[k][c] # NL
      /\ Len(lines) >= 1
      /\ (text = <<>> => lines = << <<>> >>)
      /\ (text = <<NL>> => lines = << <<>> >>)
      /\ (endsWithNL(text) => joinLines(lines) \o <<NL>> = text)
      /\ (~endsWithNL(text) => joinLines(lines) = text)
      /\ (text = <<"a">> => lines = << <<"a">> >>)
      /\ (text = <<"a", NL>> => lines = << <<"a">> >>)
      /\ (text = <<"a", NL, "b">> => lines = << <<"a">>, <<"b">> >>)
      /\ (text = <<"a", NL, "b", NL>> => lines = << <<"a">>, <<"b">> >>)
      /\ (pc = "rendered" =>
            /\ Len(originalAlignedLines) = Len(lines)
            /\ Len(modifiedAlignedLines) = Len(lines)
            /\ \A k \in 1..Len(lines) :
                 /\ originalAlignedLines[k].style = "Unchanged"
                 /\ modifiedAlignedLines[k].style = "Unchanged"
                 /\ originalAlignedLines[k].content = lines[k]
                 /\ modifiedAlignedLines[k].content = lines[k])

\* The unmarked part "a\nb\n" has been rendered as the two rows "a" and "b".
LineSplitterRuleWitness ==
  /\ pc = "rendered"
  /\ diff[1].value = <<"a", NL, "b", NL>>
  /\ Len(originalAlignedLines) = 2
  /\ originalAlignedLines[2].content = <<"b">>

spansFrom(changes, isChanged(_)) ==
  [k \in 1..Len(changes) |-> [text |-> changes[k].value, changed |-> isChanged(changes[k])]]

\* C13: the spans of the original-pane row are the changes not marked added,
\* in the order returned, each flagged changed exactly when it is marked
\* removed; the spans of the modified-pane row are the changes not marked
\* removed, each flagged changed exactly when it is marked added; diffChars
\* is called once for the pair of lines.
SpanListsFromCharDiffs ==
  /\ diffCharsCalls <= 1
  /\ highlightPc = "pushed" =>
       /\ diffCharsCalls = 1
       /\ originalPushed[1].spans =
            <<spansFrom(SelectSeq(charDiffs, LAMBDA c : ~c.added), LAMBDA c : c.removed)>>
       /\ modifiedPushed[1].spans =
            <<spansFrom(SelectSeq(charDiffs, LAMBDA c : ~c.removed), LAMBDA c : c.added)>>

\* Rows were pushed for three changes of different kinds, one of them
\* unmarked, one removed and one added.
SpanListsFromCharDiffsWitness ==
  /\ highlightPc = "pushed"
  /\ Len(charDiffs) = 3
  /\ \E k \in 1..3 : ~charDiffs[k].added /\ ~charDiffs[k].removed
  /\ \E k \in 1..3 : ~charDiffs[k].added /\ charDiffs[k].removed
  /\ \E k \in 1..3 : charDiffs[k].added /\ ~charDiffs[k].removed
  /\ Len(originalPushed[1].spans[1]) = 2
  /\ Len(modifiedPushed[1].spans[1]) = 2

RECURSIVE concatenation(_)
concatenation(texts) ==
  IF texts = <<>> THEN <<>> ELSE Head(texts) \o concatenation(Tail(texts))

valuesOf(changes) == [k \in 1..Len(changes) |-> changes[k].value]

\* diffChars' contract: the changes not added make up the old line and the
\* changes not removed make up the new line.
coversBothLines ==
  /\ concatenation(valuesOf(SelectSeq(charDiffs, LAMBDA c : ~c.added))) = originalLineText
  /\ concatenation(valuesOf(SelectSeq(charDiffs, LAMBDA c : ~c.removed))) = modifiedLineText

\* C14: when what diffChars returned covers both lines, the texts of the
\* original-pane spans one after the other are the original line and the
\* texts of the modified-pane spans one after the other are the modified
\* line.
SpansReconstructLines ==
  (highlightPc = "pushed" /\ coversBothLines) =>
     /\ concatenation([k \in 1..Len(originalPushed[1].spans[1]) |->
                          originalPushed[1].spans[1][k].text]) = originalLineText
     /\ concatenation([k \in 1..Len(modifiedPushed[1].spans[1]) |->
                          modifiedPushed[1].spans[1][k].text]) = modifiedLineText

\* Rows were pushed for two different non-empty lines covered by three
\* changes.
SpansReconstructLinesWitness ==
  /\ highlightPc = "pushed"
  /\ coversBothLines
  /\ originalLineText = <<"a", "b">>
  /\ modifiedLineText = <<"b">>
  /\ Len(charDiffs) = 3

\* The text on one side of the comparison: the values of the parts that
\* belong to that side, one after the other.
originalText == concatenation(valuesOf(SelectSeq(diff, LAMBDA part : ~part.added)))

modifiedText == concatenation(valuesOf(SelectSeq(diff, LAMBDA part : ~part.removed)))

\* What diffLines returns: parts with at most one mark, each a non-empty run
\* of whole lines, so that on either side only the last part of that side
\* may lack a final line break.
lineDifferOutput ==
  /\ \A k \in 1..Len(diff) : diff[k].value # <<>> /\ ~(diff[k].added /\ diff[k].removed)
  /\ \A k \in 1..Len(diff) : \A h \in (k + 1)..Len(diff) :
       /\ (~diff[k].added /\ ~diff[h].added) => endsWithNL(diff[k].value)
       /\ (~diff[k].removed /\ ~diff[h].removed) => endsWithNL(diff[k].value)

contentsOf(rows) == [k \in 1..Len(rows) |-> rows[k].content]

withoutFinalLineBreak(text) ==
  IF endsWithNL(text) THEN SubSeq(text, 1, Len(text) - 1) ELSE text

\* C15 as stated: the contents of the original pane's numbered rows joined
\* with line breaks are the original text exactly, and likewise for the
\* modified pane.
RoundTripExact ==
  (pc = "rendered" /\ lineDifferOutput) =>
     /\ joinLines(contentsOf(numbered(originalAlignedLines))) = originalText
     /\ joinLines(contentsOf(numbered(modifiedAlignedLines))) = modifiedText

\* C15: for what diffLines returns, the contents of the original pane's
\* numbered rows joined with line breaks are the original text without its
\* final line break if it has one, and likewise for the modified pane; a
\* text that does not end in a line break is reproduced exactly.
RoundTripUpToFinalLineBreak ==
  (pc \in {"rendered", "noDifferences"} /\ lineDifferOutput) =>
     /\ joinLines(contentsOf(numbered(originalAlignedLines))) = withoutFinalLineBreak(originalText)
     /\ joinLines(contentsOf(numbered(modifiedAlignedLines))) = withoutFinalLineBreak(modifiedText)

\* A rendered diff of two parts, one per side, where the original text ends
\* in a line break and the modified text does not.
RoundTripUpToFinalLineBreakWitness ==
  /\ pc = "rendered"
  /\ lineDifferOutput
  /\ Len(diff) = 2
  /\ diff[1].removed /\ diff[2].added
  /\ endsWithNL(originalText)
  /\ ~endsWithNL(modifiedText)
  /\ Len(numbered(modifiedAlignedLines)) = 2

\* C16: when every part is unmarked (the two texts are the same), every row
\* of both panes is Unchanged, there is no Placeholder, and the rows of both
\* panes are numbered 1..N, so the two numbers at every index are equal.
IdenticalTextsRows ==
  (pc = "rendered" /\ \A k \in 1..Len(diff) : ~diff[k].added /\ ~diff[k].removed) =>
     /\ Len(originalAlignedLines) = Len(modifiedAlignedLines)
     /\ \A row \in 1..Len(originalAlignedLines) :
          /\ originalAlignedLines[row].style = "Unchanged"
          /\ modifiedAlignedLines[row].style = "Unchanged"
          /\ originalAlignedLines[row].lineNumber = <<row>>
          /\ modifiedAlignedLines[row].lineNumber = <<row>>
          /\ originalAlignedLines[row].content = modifiedAlignedLines[row].content

\* Two unmarked parts were rendered as four rows.
IdenticalTextsRowsWitness ==
  /\ pc = "rendered"
  /\ Len(diff) = 2
  /\ \A k \in 1..Len(diff) : ~diff[k].added /\ ~diff[k].removed
  /\ Len(originalAlignedLines) = 4
  /\ originalAlignedLines[4].lineNumber = <<4>>

\* What diffLines returns for "a\nb\nc" against "a\nx\nc".
oneLineChanged ==
  << change(<<"a", NL>>, FALSE, FALSE, 1), change(<<"b", NL>>, FALSE, TRUE, 1),
     change(<<"x", NL>>, TRUE, FALSE, 1), change(<<"c">>, FALSE, FALSE, 1) >>

\* C17: for Common "a\n", Removed "b\n" (1 line), Added "x\n" (1 line),
\* Common "c", each pane has exactly three rows numbered 1, 2, 3; rows 1 and
\* 3 are Unchanged on both panes; row 2 is Modified on both panes, its
\* original spans making up "b" and flagged changed, its modified spans
\* making up "x" and flagged changed; there is no Placeholder.
OneLineChangedRows ==
  (pc = "rendered" /\ diff = oneLineChanged) =>
     /\ originalAlignedLines =
          << [style |-> "Unchanged", lineNumber |-> <<1>>, content |-> <<"a">>, spans |-> <<>>],
             [style |-> "Modified", lineNumber |-> <<2>>, content |-> <<"b">>,
              spans |-> << <<[text |-> <<"b">>, changed |-> TRUE]>> >>],
             [style |-> "Unchanged", lineNumber |-> <<3>>, content |-> <<"c">>, spans |-> <<>>] >>
     /\ modifiedAlignedLines =
          << [style |-> "Unchanged", lineNumber |-> <<1>>, content |-> <<"a">>, spans |-> <<>>],
             [style |-> "Modified", lineNumber |-> <<2>>, content |-> <<"x">>,
              spans |-> << <<[text |-> <<"x">>, changed |-> TRUE]>> >>],
             [style |-> "Unchanged", lineNumber |-> <<3>>, content |-> <<"c">>, spans |-> <<>>] >>

\* The four parts have been rendered, the middle two as a modified block.
OneLineChangedRowsWitness ==
  /\ pc = "rendered"
  /\ diff = oneLineChanged
  /\ Len(iterations) = 3
  /\ iterations[2].branch = "modifiedBlock"

\* C18: a part marked both added and removed, or marked neither, is rendered
\* as a Common operation: it is not taken into a modified block, its lines
\* are pushed as Unchanged rows to both panes, and both counters advance.
MalformedRenderedAsCommon ==
  \A k \in 1..Len(iterations) :
    LET it == iterations[k]
    IN  \A p \in {it.consumed[c] : c \in 1..Len(it.consumed)} :
          (diff[p].added = diff[p].removed) =>
             LET lines == getDisplayLines(diff[p].value)
             IN  /\ it.branch = "standalone"
                 /\ it.rows = Len(lines)
                 /\ \A row \in rowsOf(it) :
                      (row <= Len(originalAlignedLines) /\ row <= Len(modifiedAlignedLines)) =>
                         /\ originalAlignedLines[row].style = "Unchanged"
                         /\ modifiedAlignedLines[row].style = "Unchanged"
                 /\ it.originalAfter = it.originalBefore + Len(lines)
                 /\ it.modifiedAfter = it.modifiedBefore + Len(lines)

\* C19: for an empty diff DiffDisplay returns the 'no differences' message;
\* it never enters the loop, returns no panes and pushes no row.  This holds
\* of the pairing DiffDisplay and of the DiffDisplay without pairing.
EmptyDiffNoRows ==
  Len(diff) = 0 =>
     /\ pc \in {"entry", "noDifferences"}
     /\ originalAlignedLines = <<>>
     /\ modifiedAlignedLines = <<>>
     /\ plainPc \in {"entry", "noDifferences"}
     /\ plainOriginalLines = <<>>
     /\ plainModifiedLines = <<>>

\* Both versions have returned the message for the empty diff.
EmptyDiffNoRowsWitness ==
  /\ Len(diff) = 0
  /\ pc = "noDifferences"
  /\ plainPc = "noDifferences"

\* C20: for every diff, whatever the marks, values and counts of its parts
\* (counts that contradict the values, zero counts and absent counts
\* included), the pairing DiffDisplay comes to its return: the message for
\* an empty diff, the two panes otherwise.
AlwaysReturns == <>(pc \in {"noDifferences", "rendered"})

\* The panes were returned for a Removed part and an Added part whose equal
\* counts contradict their values, and for parts without a count or with a
\* zero count.
AlwaysReturnsWitness ==
  /\ pc = "rendered"
  /\ Len(diff) = 2
  /\ \/ /\ diff[1].removed /\ diff[2].added
        /\ diff[1].count = <<1>> /\ diff[2].count = <<1>>
        /\ Len(getDisplayLines(diff[1].value)) = 2
        /\ Len(getDisplayLines(diff[2].value)) = 1
     \/ diff[1].count = <<>> /\ diff[2].count = <<0>> /\ diff[1].added /\ diff[1].removed

\* The index after each iteration is 1 or 2 above the index before it, each
\* iteration starts where the one before it ended, and the index and the
\* number of iterations stay within the length of the diff.
loopVariant ==
  /\ i <= Len(diff)
  /\ Len(iterations) <= Len(diff)
  /\ \A k \in 1..Len(iterations) :
       /\ iterations[k].nextIndex - iterations[k].index \in {1, 2}
       /\ iterations[k].index < Len(diff)
       /\ iterations[k].nextIndex <= Len(diff)
       /\ iterations[k].index = (IF k = 1 THEN 0 ELSE iterations[k - 1].nextIndex)
  /\ (Len(iterations) > 0 => i = iterations[Len(iterations)].nextIndex)

\* C21: the loop of the pairing DiffDisplay terminates: at every iteration
\* the index grows by 1 or 2, it never exceeds the length of the diff, there
\* are at most as many iterations as parts, and once entered the loop is
\* left.
LoopTerminates == [](loopVariant) /\ (pc = "loop" ~> pc = "rendered")

\* The loop was left after one iteration that advanced the index by 2 to the
\* length of the diff.
LoopTerminatesWitness ==
  /\ pc = "rendered"
  /\ Len(diff) = 2
  /\ Len(iterations) = 1
  /\ iterations[1].nextIndex = 2
  /\ i = 2

isPrefix(rows, all) == Len(rows) <= Len(all) /\ SubSeq(all, 1, Len(rows)) = rows

\* C22: the counters and the row arrays belong to one invocation: whichever
\* way the steps of two invocations interleave, each returns what it returns
\* when run alone on its diff (and, before it returns, holds the first rows
\* of that), so two invocations on the same diff return the same panes, each
\* numbered from 1.
InvocationsIndependent ==
  LET first == DiffDisplayAlone(diff)
      other == DiffDisplayAlone(secondDiff)
  IN  /\ isPrefix(originalAlignedLines, first.original)
      /\ isPrefix(modifiedAlignedLines, first.modified)
      /\ isPrefix(second.originalAlignedLines, other.original)
      /\ isPrefix(second.modifiedAlignedLines, other.modified)
      /\ pc \in {"noDifferences", "rendered"} =>
           /\ pc = first.pc
           /\ originalAlignedLines = first.original
           /\ modifiedAlignedLines = first.modified
      /\ second.pc \in {"noDifferences", "rendered"} =>
           /\ second.pc = other.pc
           /\ second.originalAlignedLines = other.original
           /\ second.modifiedAlignedLines = other.modified
      /\ (pc = "rendered" /\ second.pc = "rendered" /\ diff = secondDiff) =>
           /\ second.originalAlignedLines = originalAlignedLines
           /\ second.modifiedAlignedLines = modifiedAlignedLines

\* Two invocations on the same diff of two parts have both returned panes
\* whose first numbered row carries the number 1.
InvocationsIndependentWitness ==
  /\ pc = "rendered"
  /\ second.pc = "rendered"
  /\ diff = secondDiff
  /\ Len(diff) = 2
  /\ diff[1].removed
  /\ numbered(second.originalAlignedLines)[1].lineNumber = <<1>>
  /\ numbered(originalAlignedLines)[1].lineNumber = <<1>>
  /\ second.currentOriginalLine = currentOriginalLine
  /\ currentOriginalLine > 2

\* C23: the DiffDisplay without pairing renders a part whose value is a
\* single line break as one row on each pane, as getDisplayLines does.
PlainLineBreakOneRow ==
  (plainPc = "rendered" /\ diff[1].value = <<NL>>) =>
     /\ Len(plainOriginalLines) = 1
     /\ Len(plainModifiedLines) = 1
     /\ Len(plainOriginalLines) = Len(getDisplayLines(diff[1].value))

pushed(before, after) == SubSeq(after, Len(before) + 1, Len(after))

\* What a step that processes one standalone part must leave alone, for the
\* counters and panes of one version of DiffDisplay.
frameOfPart(part, originalLine, originalLineAfter, modifiedLine, modifiedLineAfter,
            originalRows, modifiedRows) ==
  /\ (part.removed /\ ~part.added) => modifiedLineAfter = modifiedLine
  /\ (part.added /\ ~part.removed) => originalLineAfter = originalLine
  /\ originalLineAfter - originalLine = Len(numbered(originalRows))
  /\ modifiedLineAfter - modifiedLine = Len(numbered(modifiedRows))
  /\ \A k \in 1..Len(originalRows) :
       originalRows[k].style = "Placeholder" => originalRows[k].lineNumber = <<>>
  /\ \A k \in 1..Len(modifiedRows) :
       modifiedRows[k].style = "Placeholder" => modifiedRows[k].lineNumber = <<>>

\* C24: a step that processes a standalone Removed part leaves the modified
\* pane's counter unchanged, a step that processes a standalone Added part
\* leaves the original pane's counter unchanged, and each counter advances
\* by the number of rows pushed to its pane that are not placeholders; this
\* holds of the pairing DiffDisplay and of the DiffDisplay without pairing.
StandaloneFrame ==
  [][ /\ (pc = "loop" /\ i' = i + 1) =>
           frameOfPart(diff[i + 1], currentOriginalLine, currentOriginalLine',
                       currentModifiedLine, currentModifiedLine',
                       pushed(originalAlignedLines, originalAlignedLines'),
                       pushed(modifiedAlignedLines, modifiedAlignedLines'))
      /\ (plainPc = "forEach" /\ partIndex' = partIndex + 1) =>
           frameOfPart(diff[partIndex + 1], plainOriginalLine, plainOriginalLine',
                       plainModifiedLine, plainModifiedLine',
                       pushed(plainOriginalLines, plainOriginalLines'),
                       pushed(plainModifiedLines, plainModifiedLines')) ]_vars

\* Both versions have rendered an Added part of two lines followed by a
\* Removed part: the original counter stood still over the first part and
\* the modified counter over the second.
StandaloneFrameWitness ==
  /\ pc = "rendered"
  /\ plainPc = "rendered"
  /\ Len(diff) = 2
  /\ diff[1].added /\ ~diff[1].removed
  /\ diff[2].removed /\ ~diff[2].added
  /\ Len(iterations) = 2
  /\ iterations[1].rows = 2
  /\ iterations[1].originalAfter = 1
  /\ iterations[2].modifiedAfter = iterations[2].modifiedBefore
  /\ currentModifiedLine = 3
  /\ plainModifiedLine = 3

\* The step pushes the rows of a modified block.
pairingStep ==
  /\ Len(iterations') = Len(iterations) + 1
  /\ iterations'[Len(iterations')].branch = "modifiedBlock"

\* C25: the loop processes a pair ('pairing') only from the loop head
\* ('scanning') at an index where the modified-block condition holds; the
\* step processes exactly that pair and ends at the loop head at index
\* i + 2, so two pairs are never processed without the loop head between
\* them, and the loop is left from the loop head.
PairingOnlyOnCondition ==
  [][ /\ pairingStep =>
           /\ pc = "loop" /\ pc' = "loop"
           /\ diff[i + 1].removed
           /\ i + 2 <= Len(diff)
           /\ diff[i + 2].added
           /\ diff[i + 1].count = diff[i + 2].count
           /\ diff[i + 1].count # <<>>
           /\ diff[i + 1].count[1] > 0
           /\ iterations'[Len(iterations')].consumed = <<i + 1, i + 2>>
           /\ i' = i + 2
      /\ pc' = "rendered" => (pc = "loop" /\ ~pairingStep /\ i' = i) ]_vars

\* A pair was processed at index 1 and the loop went on at index 3 with a
\* standalone part before it was left.
PairingOnlyOnConditionWitness ==
  /\ pc = "rendered"
  /\ Len(iterations) = 3
  /\ iterations[2].branch = "modifiedBlock"
  /\ iterations[2].index = 1
  /\ iterations[3].branch = "standalone"
  /\ iterations[3].index = 3

\* C26: every iteration pushes at least one row to each pane, because
\* getDisplayLines gives at least one line for every value (the empty value
\* and the single line break included); so the panes returned for a
\* non-empty diff are never empty and the filler for an empty pane is never
\* rendered, and no rows exist for an empty diff.
EveryPartContributesRows ==
  /\ \A k \in 1..Len(iterations) :
       /\ iterations[k].rows >= 1
       /\ Len(originalAlignedLines) >= iterations[k].firstRow + iterations[k].rows - 1
       /\ Len(modifiedAlignedLines) >= iterations[k].firstRow + iterations[k].rows - 1
       /\ iterations[k].firstRow =
            (IF k = 1 THEN 1 ELSE iterations[k - 1].firstRow + iterations[k - 1].rows)
  /\ pc = "rendered" =>
       /\ Len(diff) # 0
       /\ Len(originalAlignedLines) > 0
       /\ Len(modifiedAlignedLines) > 0
  /\ Len(diff) = 0 => (originalAlignedLines = <<>> /\ modifiedAlignedLines = <<>>)
  /\ (originalAlignedLines = <<>> /\ modifiedAlignedLines = <<>>) =>
       (Len(diff) = 0 \/ (pc \in {"entry", "loop"} /\ Len(iterations) = 0))

\* Panes were returned for a diff whose first part is a single line break,
\* which gave one empty row.
EveryPartContributesRowsWitness ==
  /\ pc = "rendered"
  /\ diff[1].value = <<NL>>
  /\ iterations[1].rows = 1
  /\ originalAlignedLines[1].content = <<>>
  /\ Len(originalAlignedLines) = 2

\* C27: at every row index the styles of the original-pane row and the
\* modified-pane row are (Unchanged, Unchanged), (Removed, Placeholder),
\* (Placeholder, Added) or (Modified, Modified).
RowStylePairs ==
  \A row \in 1..Len(originalAlignedLines) :
    row <= Len(modifiedAlignedLines) =>
      <<originalAlignedLines[row].style, modifiedAlignedLines[row].style>> \in
        { <<"Unchanged", "Unchanged">>, <<"Removed", "Placeholder">>,
          <<"Placeholder", "Added">>, <<"Modified", "Modified">> }

\* Panes were returned in which each of the four combinations occurs.
RowStylePairsWitness ==
  /\ pc = "rendered"
  /\ \A style \in {"Unchanged", "Removed", "Placeholder", "Modified"} :
       \E row \in 1..Len(originalAlignedLines) : originalAlignedLines[row].style = style
  /\ \E row \in 1..Len(modifiedAlignedLines) : modifiedAlignedLines[row].style = "Added"

numberAndContent(rows) ==
  [k \in 1..Len(numbered(rows)) |->
     <<numbered(rows)[k].lineNumber, numbered(rows)[k].content>>]

\* C28: for a diff in which no part's value is a single line break, the
\* pairing DiffDisplay and the DiffDisplay without pairing show on each pane
\* the same sequence of (line number, line content) over the rows that are
\* not placeholders.
SamePaneContent ==
  (pc = "rendered" /\ plainPc = "rendered"
     /\ \A k \in 1..Len(diff) : diff[k].value # <<NL>>) =>
     /\ numberAndContent(originalAlignedLines) = numberAndContent(plainOriginalLines)
     /\ numberAndContent(modifiedAlignedLines) = numberAndContent(plainModifiedLines)

\* C29: while a comparison is pending isLoading is true and the Compare
\* button is disabled, so at most one callback is pending at any time; the
\* result panel is not shown while isLoading is true; and every comparison
\* that was started completes: its callback sets diffResult and resets
\* isLoading.
ComparisonCompletes ==
  /\ [](/\ Len(timers) <= 1
        /\ (timers # <<>>) = isLoading
        /\ isLoading => (compareDisabled /\ ~resultPanelShown))
  /\ (isLoading ~> (~isLoading /\ diffResult # <<>> /\ timers = <<>>))

\* A second comparison is pending while the result of the first is there:
\* the panel is hidden until the callback runs.
ComparisonCompletesWitness ==
  /\ isLoading
  /\ Len(timers) = 1
  /\ diffResult # <<>>
  /\ toast = "Comparison Complete"
  /\ ~resultPanelShown
  /\ timers[1].originalText # formOriginalText

====
